---------------------------- MODULE Spec2Model ----------------------------
(***************************************************************************)
(* Model of the taxi-tip MLOps notebooks:                                  *)
(*   - data preparation and schema inference (01-dataset-management and    *)
(*     the earlier version of the same notebook, unnamed/part_000),        *)
(*   - submission and polling of the custom training job, followed by the  *)
(*     model upload (02-experimentation),                                  *)
(*   - creation of the model monitoring job (08-model-monitoring).         *)
(* Amounts (miles, seconds, fare, tips) are whole units; a nullable SQL    *)
(* value is <<>> (NULL) or <<v>>.                                          *)
(***************************************************************************)
EXTENDS Integers, Sequences, FiniteSets, TLC

VARIABLES
    taxi_trips,     \* the public source table read by the SQL script
    bq_table,       \* the destination table PROJECT.BQ_DATASET_NAME.BQ_TABLE_NAME
    runCount,       \* number of data-preparation jobs that have completed
    query_error,    \* error raised by the last data-preparation job, "none" if it succeeded
    sample_data,    \* the dataframe loaded by `%%bigquery sample_data`
    schema,         \* the schema written to RAW_SCHEMA_DIR/schema.pbtxt
    cell,           \* 02-experimentation: the next step of section 4/5 to execute
    custom_job,     \* state of the custom job held by the training service
    response,       \* state name in the last get_custom_job response
    polls,          \* number of get_custom_job calls made by the loop
    export_dir,     \* what EXPORT_DIR holds
    export_writes,  \* the steps that have written a model into EXPORT_DIR, in order
    vertex_models,  \* Model resources created by Model.upload
    clock,          \* the platform's clock (stamps update_time)
    datasets,       \* TabularDataset resources
    endpoints,      \* Endpoint resources, with their deployed models
    mon_cell,       \* 08-model-monitoring: the next cell of section 2 to execute
    bq_source_uri,  \* 08: BigQuery source of the retrieved dataset
    endpoint_uri,   \* 08: resource name of the retrieved endpoint
    model_ids,      \* 08: ids of the models deployed on the retrieved endpoint
    deployment_objective_configs,   \* 08: one objective config per model id
    monitoring_jobs,    \* monitoring jobs held by the job service
    jobs_created,   \* number of monitoring jobs created so far (source of job names)
    monitoring_job, \* 08: name of the job held by the notebook variable, 0 if unset
    last_call,      \* 08: the last list / pause / delete call and its outcome
    step_status,    \* CI/CD build: status of each step of pipeline-deployment.yaml
    build_no,       \* CI/CD build: number of builds triggered so far
    build_status,   \* CI/CD build: status of the latest build
    build_artifacts,    \* CI/CD build: what the latest build has produced
    batch_cell,     \* batch prediction: the next cell to execute
    serving_input,  \* batch prediction: state of the files under SERVING_INPUT_DATA_DIR
    batch_jobs,     \* batch prediction jobs created
    batch_error,    \* error raised by the last batch prediction cell, "none" if it succeeded
    script_params,  \* values of PROJECT_ID (PROJECT), BQ_DATASET_NAME and BQ_TABLE_NAME
    sql_script,     \* the Python variable sql_script
    substitutions,  \* build submission: keys of the --substitutions of the last gcloud builds submit
    submit_error,   \* build submission: error of the last gcloud builds submit, "none" if accepted
    published,      \* continuous training: number of trigger messages published to the topic
    in_flight,      \* continuous training: messages the trigger function has not handled yet
    pipeline_jobs,  \* continuous training: pipeline jobs as list_jobs returns them, newest first
    job_display_name,   \* continuous training: the job the listing cell reported, 0 before
    list_error,     \* continuous training: error raised by the listing cell, "none" if it succeeded
    now,            \* experimentation: datetime.now() in whole seconds
    run_id,         \* experimentation: the Python variable run_id
    runs,           \* experimentation: run ids passed to vertex_ai.start_run, in order
    artifacts_dir_exists,   \* experimentation: tf.io.gfile.exists(EXPERIMENT_ARTIFACTS_DIR)
    experiment_artifacts,   \* experimentation: run directories below EXPERIMENT_ARTIFACTS_DIR
    REMOVE_EXPERIMENT_ARTIFACTS,    \* experimentation: the Python variable of that name
    workspace_output        \* experimentation: lines printed by the workspace cell when last run

prepVars == <<taxi_trips, bq_table, runCount, query_error, sample_data, schema>>
trainVars == <<cell, custom_job, response, polls, export_dir, export_writes, vertex_models>>
monVars == <<clock, datasets, endpoints, mon_cell, bq_source_uri, endpoint_uri,
             model_ids, deployment_objective_configs, monitoring_jobs,
             jobs_created, monitoring_job, last_call>>

buildVars == <<step_status, build_no, build_status, build_artifacts>>
batchVars == <<batch_cell, serving_input, batch_jobs, batch_error>>
scriptVars == <<script_params, sql_script>>
submitVars == <<substitutions, submit_error>>
triggerVars == <<published, in_flight, pipeline_jobs, job_display_name, list_error>>
workspaceVars == <<now, run_id, runs, artifacts_dir_exists, experiment_artifacts,
                   REMOVE_EXPERIMENT_ARTIFACTS, workspace_output>>
extVars == <<submitVars, triggerVars, workspaceVars>>
otherVars == <<buildVars, batchVars, scriptVars, extVars>>

vars == <<prepVars, trainVars, monVars, extVars, otherVars>>

---------------------------------------------------------------------------
\* Bounds of the model.
MaxTripUnits == 1   \* trip_miles and trip_seconds range over 0..MaxTripUnits
MaxFare == 5        \* fare ranges over 0..MaxFare
MaxTips == 2        \* tips is NULL or in 0..MaxTips
RandSteps == 5      \* RAND() is drawn from RandSteps equally likely cells of [0, 1)
MaxRuns == 2        \* data-preparation runs per behaviour
MaxPolls == 3       \* get_custom_job calls per behaviour
MaxDatasets == 1    \* TabularDataset resources created per behaviour
MaxEndpoints == 2   \* Endpoint resources created per behaviour
MaxDeployments == 2 \* deploy-model runs per behaviour
MaxMonitoringJobs == 2  \* monitoring jobs submitted per behaviour
MaxBuilds == 2
MaxMessages == 4
MaxSeconds == 2
MaxExperimentRuns == 2      \* CI/CD builds triggered per behaviour

\* Program constants.
sample_size == 1000000
year == 2020
TipThresholdTenths == 2     \* the 0.2 of `tips/fare >= 0.2`
SplitThresholdTenths == 8   \* the 0.8 compared with RAND()

---------------------------------------------------------------------------
\* SQL values.
NULL == <<>>
Some(v) == <<v>>
Val(x) == x[1]
IsNotNull(x) == x # NULL
Min(a, b) == IF a <= b THEN a ELSE b

Notebooks == {"nb01", "part000"}

\* The column that carries the split: ML_use in 01-dataset-management,
\* data_split in the earlier notebook.
SplitColumn(nb) == IF nb = "nb01" THEN "ML_use" ELSE "data_split"

Coordinates == {NULL, Some(0)}
Years == {year - 1, year}
Timestamps == [year : Years, month : {1}, day : {1}, dayofweek : {4}, hour : {0}]

\* Rows of bigquery-public-data.chicago_taxi_trips.taxi_trips (the columns read).
Trips ==
    [trip_start_timestamp : Timestamps,
     trip_seconds : 0..MaxTripUnits,
     trip_miles : 0..MaxTripUnits,
     payment_type : {"Cash"},
     pickup_longitude : Coordinates,
     pickup_latitude : Coordinates,
     dropoff_longitude : Coordinates,
     dropoff_latitude : Coordinates,
     tips : {NULL} \cup {Some(n) : n \in 0..MaxTips},
     fare : 0..MaxFare]

\* RAND() returns a value of [0, 1); draw d stands for the midpoint of the
\* d-th of RandSteps equal cells, (2d + 1) / (2 * RandSteps).
Draws == 0..(RandSteps - 1)

\* RAND() <= 0.8 and RAND() > 0.8 on the midpoint of cell d.
RandLe(d, tenths) == 10 * (2 * d + 1) <= tenths * 2 * RandSteps
RandGt(d, tenths) == ~RandLe(d, tenths)

---------------------------------------------------------------------------
\* Variant of the WHERE clause that lacks the `fare > 0` condition.
WhereClause_NoFareCheck(t, yr) ==
    /\ IsNotNull(t.pickup_longitude)
    /\ IsNotNull(t.pickup_latitude)
    /\ IsNotNull(t.dropoff_longitude)
    /\ IsNotNull(t.dropoff_latitude)
    /\ t.trip_miles > 0
    /\ t.trip_seconds > 0
    /\ t.trip_start_timestamp.year = yr

\* The WHERE clause of the taxitrips common table expression.
WhereClause(t, yr) ==
    /\ IsNotNull(t.pickup_longitude)
    /\ IsNotNull(t.pickup_latitude)
    /\ IsNotNull(t.dropoff_longitude)
    /\ IsNotNull(t.dropoff_latitude)
    /\ t.trip_miles > 0
    /\ t.trip_seconds > 0
    /\ t.fare > 0
    /\ t.trip_start_timestamp.year = yr

\* Indices of the source rows kept by the taxitrips common table expression.
RECURSIVE FilterIndices(_, _, _)
FilterIndices(trips, yr, i) ==
    IF i > Len(trips) THEN <<>>
    ELSE IF WhereClause(trips[i], yr)
         THEN <<i>> \o FilterIndices(trips, yr, i + 1)
         ELSE FilterIndices(trips, yr, i + 1)

taxitrips(trips, yr) == FilterIndices(trips, yr, 1)

\* tips/fare raises "division by zero" when fare = 0 and tips is not NULL.
DivisionByZero(t) == IsNotNull(t.tips) /\ t.fare = 0

\* Variant of the label with a strict comparison, tips/fare > 0.2.
TipBin_Strict(t) ==
    IF IsNotNull(t.tips) /\ 10 * Val(t.tips) > TipThresholdTenths * t.fare
    THEN 1 ELSE 0

\* IF((tips/fare >= 0.2), 1, 0): a NULL condition takes the else branch.
TipBin(t) ==
    IF IsNotNull(t.tips) /\ 10 * Val(t.tips) >= TipThresholdTenths * t.fare
    THEN 1 ELSE 0

\* Variant of the split with a third value between the two.
SplitValue_ThreeWay(nb, d) ==
    IF RandLe(d, SplitThresholdTenths - 2) THEN "UNASSIGNED"
    ELSE IF RandLe(d, SplitThresholdTenths) THEN "VALIDATE" ELSE "TEST"

\* IF(RAND() <= 0.8, 'UNASSIGNED', 'TEST') AS ML_use          (01-dataset-management)
\* IF(RAND() > 0.8, 'UNASSIGNED', 'TEST') AS data_split       (earlier notebook)
SplitValue(nb, d) ==
    IF nb = "nb01"
    THEN (IF RandLe(d, SplitThresholdTenths) THEN "UNASSIGNED" ELSE "TEST")
    ELSE (IF RandGt(d, SplitThresholdTenths) THEN "UNASSIGNED" ELSE "TEST")

\* ST_AsText(ST_SnapToGrid(ST_GeogPoint(lon, lat), 0.1)): coordinates are in grid units.
GridText(lon, lat) == <<Val(lon), Val(lat)>>
Abs(x) == IF x < 0 THEN -x ELSE x
ST_Distance(lon1, lat1, lon2, lat2) ==
    Abs(Val(lon1) - Val(lon2)) + Abs(Val(lat1) - Val(lat2))

\* The SELECT list: one prepared record from one filtered trip and one draw.
SelectList(nb, t, d) ==
    [trip_start_timestamp |-> t.trip_start_timestamp,
     trip_month |-> t.trip_start_timestamp.month,
     trip_day |-> t.trip_start_timestamp.day,
     trip_day_of_week |-> t.trip_start_timestamp.dayofweek,
     trip_hour |-> t.trip_start_timestamp.hour,
     trip_seconds |-> t.trip_seconds,
     trip_miles |-> t.trip_miles,
     payment_type |-> t.payment_type,
     pickup_grid |-> GridText(t.pickup_longitude, t.pickup_latitude),
     dropoff_grid |-> GridText(t.dropoff_longitude, t.dropoff_latitude),
     euclidean |-> ST_Distance(t.pickup_longitude, t.pickup_latitude,
                               t.dropoff_longitude, t.dropoff_latitude),
     loc_cross |-> GridText(t.pickup_longitude, t.pickup_latitude)
                   \o GridText(t.dropoff_longitude, t.dropoff_latitude),
     tip_bin |-> TipBin(t)]
    @@ (SplitColumn(nb) :> SplitValue(nb, d))

PreparedColumns(nb) ==
    {"trip_start_timestamp", "trip_month", "trip_day", "trip_day_of_week",
     "trip_hour", "trip_seconds", "trip_miles", "payment_type", "pickup_grid",
     "dropoff_grid", "euclidean", "loc_cross", "tip_bin", SplitColumn(nb)}

\* The rows of the AS ( ... ) query: SELECT over taxitrips, LIMIT @LIMIT.
\* Each row keeps the index of the source trip (src) and the job that wrote it (run).
QueryRows(nb, trips, yr, limit, draws, run) ==
    LET kept == taxitrips(trips, yr)
        n == Min(Len(kept), limit)
    IN [k \in 1..n |->
          [rec |-> SelectList(nb, trips[kept[k]], draws[k]),
           src |-> kept[k],
           run |-> run]]

QueryFails(trips, yr) ==
    \E k \in 1..Len(taxitrips(trips, yr)) : DivisionByZero(trips[taxitrips(trips, yr)[k]])

\* Variant that keeps the rows the table held (INSERT INTO instead of CREATE OR REPLACE).
CreateOrReplaceTable_Append(old, nb, rows) ==
    [exists |-> TRUE, columns |-> PreparedColumns(nb), rows |-> old.rows \o rows,
     written_by |-> nb]

\* CREATE OR REPLACE TABLE: the new rows replace whatever the table held.
CreateOrReplaceTable(old, nb, rows) ==
    [exists |-> TRUE, columns |-> PreparedColumns(nb), rows |-> rows, written_by |-> nb]

NoTable == [exists |-> FALSE, columns |-> {}, rows |-> <<>>, written_by |-> "nb01"]

\* Variant that excludes the timestamp only.
SelectExcept_KeepSplit(nb, columns) == columns \ {"trip_start_timestamp"}

\* SELECT * EXCEPT (trip_start_timestamp, <split column>)
SelectExcept(nb, columns) == columns \ {"trip_start_timestamp", SplitColumn(nb)}

Project(rec, columns) == [c \in columns |-> rec[c]]

NoSample == [loaded |-> FALSE, columns |-> {}, rows |-> <<>>]
NoSchema == [written |-> FALSE, features |-> {}, label |-> ""]

\* tfdv.generate_statistics_from_dataframe / tfdv.infer_schema: one feature per column.
infer_schema(df) == [written |-> TRUE, features |-> df.columns, label |-> "tip_bin"]

---------------------------------------------------------------------------
\* Cells "sql_script = ...", "sql_script.replace(...)" and "bq_client.query(sql_script); job.result()".
RunDataPreparation(nb) ==
    /\ runCount < MaxRuns
    /\ \E draws \in [1..Len(taxitrips(taxi_trips, year)) -> Draws] :
         IF QueryFails(taxi_trips, year)
         THEN /\ query_error' = "division by zero"
              /\ UNCHANGED <<bq_table, runCount>>
         ELSE /\ query_error' = "none"
              /\ runCount' = runCount + 1
              /\ bq_table' = CreateOrReplaceTable(bq_table, nb,
                    QueryRows(nb, taxi_trips, year, sample_size, draws, runCount + 1))
    /\ UNCHANGED <<taxi_trips, sample_data, schema, trainVars, monVars, otherVars>>

\* Cell "%%bigquery sample_data": fails when the table or an EXCEPT column does not exist.
LoadSampleData(nb) ==
    /\ bq_table.exists
    /\ {"trip_start_timestamp", SplitColumn(nb)} \subseteq bq_table.columns
    /\ sample_data' =
         [loaded |-> TRUE,
          columns |-> SelectExcept(nb, bq_table.columns),
          rows |-> [k \in 1..Len(bq_table.rows) |->
                      Project(bq_table.rows[k].rec, SelectExcept(nb, bq_table.columns))]]
    /\ UNCHANGED <<taxi_trips, bq_table, runCount, query_error, schema, trainVars, monVars, otherVars>>

\* Cells "stats = tfdv.generate_statistics_from_dataframe", "schema = tfdv.infer_schema",
\* "tfdv.write_schema_text".
GenerateSchema ==
    /\ sample_data.loaded
    /\ Len(sample_data.rows) > 0
    /\ schema' = infer_schema(sample_data)
    /\ UNCHANGED <<taxi_trips, bq_table, runCount, query_error, sample_data, trainVars, monVars, otherVars>>

PrepNext ==
    \/ \E nb \in Notebooks : RunDataPreparation(nb)
    \/ \E nb \in Notebooks : LoadSampleData(nb)
    \/ GenerateSchema

---------------------------------------------------------------------------
\* 02-experimentation, sections 4 and 5: the custom training job and the model upload.

JobStates ==
    {"JOB_STATE_QUEUED", "JOB_STATE_PENDING", "JOB_STATE_RUNNING",
     "JOB_STATE_SUCCEEDED", "JOB_STATE_FAILED", "JOB_STATE_CANCELLING",
     "JOB_STATE_CANCELLED", "JOB_STATE_PAUSED", "JOB_STATE_EXPIRED"}

\* States in which the training service has finished with the job.
TerminalStates ==
    {"JOB_STATE_SUCCEEDED", "JOB_STATE_FAILED", "JOB_STATE_CANCELLED", "JOB_STATE_EXPIRED"}

\* The job's lifecycle, driven by the training service (and by whoever cancels
\* or pauses the job through the service; the notebook never does).
JobLifecycle ==
    {<<"JOB_STATE_QUEUED", "JOB_STATE_PENDING">>,
     <<"JOB_STATE_PENDING", "JOB_STATE_RUNNING">>,
     <<"JOB_STATE_PENDING", "JOB_STATE_FAILED">>,
     <<"JOB_STATE_RUNNING", "JOB_STATE_SUCCEEDED">>,
     <<"JOB_STATE_RUNNING", "JOB_STATE_FAILED">>,
     <<"JOB_STATE_RUNNING", "JOB_STATE_PAUSED">>,
     <<"JOB_STATE_PAUSED", "JOB_STATE_RUNNING">>,
     <<"JOB_STATE_PAUSED", "JOB_STATE_EXPIRED">>,
     <<"JOB_STATE_QUEUED", "JOB_STATE_CANCELLING">>,
     <<"JOB_STATE_PENDING", "JOB_STATE_CANCELLING">>,
     <<"JOB_STATE_RUNNING", "JOB_STATE_CANCELLING">>,
     <<"JOB_STATE_PAUSED", "JOB_STATE_CANCELLING">>,
     <<"JOB_STATE_CANCELLING", "JOB_STATE_CANCELLED">>}

\* Variant that also breaks on a cancelled job.
LoopBreaks_OnCancelled(state_name) ==
    \/ state_name = "JOB_STATE_SUCCEEDED"
    \/ state_name = "JOB_STATE_FAILED"
    \/ state_name = "JOB_STATE_CANCELLED"

\* The states on which the polling loop executes `break`.
LoopBreaks(state_name) ==
    state_name = "JOB_STATE_SUCCEEDED" \/ state_name = "JOB_STATE_FAILED"

\* Cell "!python -m src.model_training.task --model-dir={EXPORT_DIR} ...".
TestTrainingTaskLocally ==
    /\ cell = "test_task"
    /\ export_dir' = "local_task_model"
    /\ export_writes' = Append(export_writes, "local_task")
    /\ cell' = "submit"
    /\ UNCHANGED <<custom_job, response, polls, vertex_models, prepVars, monVars, otherVars>>

\* Cell "job = job_client_beta.create_custom_job(parent=PARENT, custom_job=custom_job)".
SubmitTrainingJob ==
    /\ cell = "submit"
    /\ custom_job' \in {"JOB_STATE_QUEUED", "JOB_STATE_PENDING"}
    /\ cell' = "poll"
    /\ UNCHANGED <<response, polls, export_dir, export_writes, vertex_models, prepVars, monVars, otherVars>>

\* Variant of the loop iteration that cancels a job it finds unfinished.
PollJobState_Cancels ==
    /\ cell = "poll"
    /\ polls < MaxPolls
    /\ response' = custom_job
    /\ polls' = polls + 1
    /\ cell' = IF LoopBreaks(custom_job) THEN "upload" ELSE "sleep"
    /\ custom_job' = IF custom_job \in TerminalStates \cup {"JOB_STATE_CANCELLING"}
                     THEN custom_job ELSE "JOB_STATE_CANCELLING"
    /\ UNCHANGED <<export_dir, export_writes, vertex_models, prepVars, monVars, otherVars>>

\* One iteration of `while True:` up to the break or the call of time.sleep(60).
PollJobState ==
    /\ cell = "poll"
    /\ polls < MaxPolls
    /\ response' = custom_job
    /\ polls' = polls + 1
    /\ cell' = IF LoopBreaks(custom_job) THEN "upload" ELSE "sleep"
    /\ UNCHANGED <<custom_job, export_dir, export_writes, vertex_models, prepVars, monVars, otherVars>>

\* time.sleep(60) returns and the loop starts over.
SleepReturns ==
    /\ cell = "sleep"
    /\ cell' = "poll"
    /\ UNCHANGED <<custom_job, response, polls, export_dir, export_writes, vertex_models,
                   prepVars, monVars, otherVars>>

\* Cell "vertex_model = vertex_ai.Model.upload(..., artifact_uri=EXPORT_DIR, ...)".
UploadModel ==
    /\ cell = "upload"
    /\ vertex_models' = Append(vertex_models, [artifact |-> export_dir, job_state |-> response])
    /\ cell' = "done"
    /\ UNCHANGED <<custom_job, response, polls, export_dir, export_writes, prepVars, monVars, otherVars>>

\* The training service moves the job along its lifecycle.  The job's
\* base_output_directory is EXPERIMENT_RUN_DIR and trainer_args has no
\* --model-dir, so a job that succeeds has exported its model to
\* EXPERIMENT_RUN_DIR/model, which is EXPORT_DIR.
JobServiceStep ==
    /\ \E tr \in JobLifecycle :
         /\ custom_job = tr[1]
         /\ custom_job' = tr[2]
         /\ IF tr[2] = "JOB_STATE_SUCCEEDED"
            THEN /\ export_dir' = "custom_job_model"
                 /\ export_writes' = Append(export_writes, "custom_job")
            ELSE UNCHANGED <<export_dir, export_writes>>
    /\ UNCHANGED <<cell, response, polls, vertex_models, prepVars, monVars, otherVars>>

TrainNext ==
    \/ TestTrainingTaskLocally
    \/ SubmitTrainingJob
    \/ PollJobState
    \/ SleepReturns
    \/ UploadModel
    \/ JobServiceStep
---------------------------------------------------------------------------
\* 06-model-deployment (endpoint, deployed models) and 08-model-monitoring, section 2.

DATASET_DISPLAY_NAME == "chicago-taxi-tips"
ENDPOINT_DISPLAY_NAME == "chicago-taxi-tips-classifier"
MONITORING_JOB_NAME == "monitor-chicago-taxi-tips-classifier"
TARGET_FEATURE_NAME == "tip_bin"

\* Variant of the monitored features without loc_cross.
MonitoredFeatures_NoLocCross ==
    {"trip_month", "trip_day", "trip_day_of_week", "trip_hour", "trip_seconds",
     "trip_miles", "payment_type", "pickup_grid", "dropoff_grid", "euclidean"}

MonitoredFeatures ==
    {"trip_month", "trip_day", "trip_day_of_week", "trip_hour", "trip_seconds",
     "trip_miles", "payment_type", "pickup_grid", "dropoff_grid", "euclidean", "loc_cross"}

\* Thresholds in tenths: 0.3 for every feature.
SKEW_THRESHOLDS == [f \in MonitoredFeatures |-> 3]
DIRFT_THRESHOLDS == [f \in MonitoredFeatures |-> 3]

EndpointNames == {ENDPOINT_DISPLAY_NAME, "other-endpoint"}

\* The serving notebook's test_instances: each feature name maps to a list of
\* one value (numbers in whole units).
test_instances ==
    <<[dropoff_grid |-> <<"POINT(-87.6 41.9)">>,
       euclidean |-> <<2064>>,
       loc_cross |-> <<"">>,
       payment_type |-> <<"Credit Card">>,
       pickup_grid |-> <<"POINT(-87.6 41.9)">>,
       trip_miles |-> <<1>>,
       trip_day |-> <<12>>,
       trip_hour |-> <<16>>,
       trip_month |-> <<2>>,
       trip_day_of_week |-> <<4>>,
       trip_seconds |-> <<555>>]>>

mgmtVars == <<monitoring_job, last_call>>

\* list(filter='display_name=...', order_by='update_time'): the matching
\* resources, least recently updated first.
RECURSIVE SortByUpdateTime(_)
SortByUpdateTime(rs) ==
    IF rs = {} THEN <<>>
    ELSE LET first == CHOOSE r \in rs : \A o \in rs : r.update_time <= o.update_time
         IN <<first>> \o SortByUpdateTime(rs \ {first})

ListByDisplayName(resources, name) ==
    SortByUpdateTime({resources[k] : k \in
        {i \in 1..Len(resources) : resources[i].display_name = name}})

First(seq) == seq[1]
Last(seq) == seq[Len(seq)]

NoCall == [op |-> "none", target |-> 0, error |-> "none"]

\* {feature: ThresholdConfig(value=float(value)) for feature, value in X.items()}
ThresholdConfigs(thresholds) ==
    [feature \in DOMAIN thresholds |-> [value |-> thresholds[feature]]]

objective_template(uri) ==
    [deployed_model_id |-> "",
     training_dataset |-> [target_field |-> TARGET_FEATURE_NAME, bigquery_source |-> uri],
     skew_thresholds |-> ThresholdConfigs(SKEW_THRESHOLDS),
     drift_thresholds |-> ThresholdConfigs(DIRFT_THRESHOLDS)]

\* Variant without the deepcopy: every entry of the list is the template object
\* itself, which ends up carrying the id set last.
ObjectiveConfigs_SharedTemplate(ids, uri) ==
    [k \in 1..Len(ids) |->
        [objective_template(uri) EXCEPT !.deployed_model_id = ids[Len(ids)]]]

\* for model_id in model_ids: deepcopy of the template with deployed_model_id set.
ObjectiveConfigs(ids, uri) ==
    [k \in 1..Len(ids) |-> [objective_template(uri) EXCEPT !.deployed_model_id = ids[k]]]

\* 01-dataset-management, cell "dataset = vertex_ai.TabularDataset.create(...)".
CreateDataset ==
    /\ Len(datasets) < MaxDatasets
    /\ clock' = clock + 1
    /\ datasets' = Append(datasets,
          [display_name |-> DATASET_DISPLAY_NAME,
           bq_source |-> "bq://PROJECT_ID.playground_us.chicago_taxitrips_prep",
           update_time |-> clock + 1])
    /\ UNCHANGED <<endpoints, mon_cell, bq_source_uri, endpoint_uri, model_ids,
                   deployment_objective_configs, monitoring_jobs, jobs_created, mgmtVars,
                   prepVars, trainVars, otherVars>>

\* 06-model-deployment, cell "build/utils.py --mode=create-endpoint": an endpoint
\* with no deployed model.
CreateEndpoint(name) ==
    /\ Len(endpoints) < MaxEndpoints
    /\ clock' = clock + 1
    /\ endpoints' = Append(endpoints,
          [id |-> Len(endpoints) + 1, display_name |-> name,
           deployed_models |-> <<>>, update_time |-> clock + 1])
    /\ UNCHANGED <<datasets, mon_cell, bq_source_uri, endpoint_uri, model_ids,
                   deployment_objective_configs, monitoring_jobs, jobs_created, mgmtVars,
                   prepVars, trainVars, otherVars>>

DeployedCount(k) == Len(endpoints[k].deployed_models)

RECURSIVE TotalDeployed(_)
TotalDeployed(k) == IF k = 0 THEN 0 ELSE DeployedCount(k) + TotalDeployed(k - 1)

\* 06-model-deployment, cell "build/utils.py --mode=deploy-model": one more
\* deployed model on an endpoint with the given display name.
DeployModel(k) ==
    /\ k \in 1..Len(endpoints)
    /\ TotalDeployed(Len(endpoints)) < MaxDeployments
    /\ clock' = clock + 1
    /\ endpoints' = [endpoints EXCEPT
          ![k].deployed_models = Append(@, TotalDeployed(Len(endpoints)) + 1),
          ![k].update_time = clock + 1]
    /\ UNCHANGED <<datasets, mon_cell, bq_source_uri, endpoint_uri, model_ids,
                   deployment_objective_configs, monitoring_jobs, jobs_created, mgmtVars,
                   prepVars, trainVars, otherVars>>

\* 08, cell "dataset = ...list(...)[-1] ... model_ids = [model.id for model in
\* endpoint.list_models()]"; [-1] raises IndexError on an empty list.
RetrieveResources ==
    /\ mon_cell = "retrieve"
    /\ ListByDisplayName(datasets, DATASET_DISPLAY_NAME) # <<>>
    /\ ListByDisplayName(endpoints, ENDPOINT_DISPLAY_NAME) # <<>>
    /\ LET dataset == Last(ListByDisplayName(datasets, DATASET_DISPLAY_NAME))
           endpoint == Last(ListByDisplayName(endpoints, ENDPOINT_DISPLAY_NAME))
       IN /\ bq_source_uri' = dataset.bq_source
          /\ endpoint_uri' = endpoint.id
          /\ model_ids' = endpoint.deployed_models
    /\ mon_cell' = "configure"
    /\ UNCHANGED <<clock, datasets, endpoints, deployment_objective_configs,
                   monitoring_jobs, jobs_created, mgmtVars,
                   prepVars, trainVars, otherVars>>

\* 08, cell "skew_thresholds = ... deployment_objective_configs.append(objective_config) ...".
ConfigureMonitoringJob ==
    /\ mon_cell = "configure"
    /\ deployment_objective_configs' = ObjectiveConfigs(model_ids, bq_source_uri)
    /\ mon_cell' = "submit"
    /\ UNCHANGED <<clock, datasets, endpoints, bq_source_uri, endpoint_uri, model_ids,
                   monitoring_jobs, jobs_created, mgmtVars,
                   prepVars, trainVars, otherVars>>

\* 08, cells "job = vertex_ai_beta.ModelDeploymentMonitoringJob(...)" and
\* "response = job_client_beta.create_model_deployment_monitoring_job(...)".
SubmitMonitoringJob ==
    /\ mon_cell = "submit"
    /\ jobs_created < MaxMonitoringJobs
    /\ jobs_created' = jobs_created + 1
    /\ monitoring_jobs' = Append(monitoring_jobs,
          [name |-> jobs_created + 1,
           display_name |-> MONITORING_JOB_NAME,
           endpoint |-> endpoint_uri,
           objective_configs |-> deployment_objective_configs,
           state |-> "JOB_STATE_PENDING"])
    /\ mon_cell' = "retrieve"
    /\ UNCHANGED <<clock, datasets, endpoints, bq_source_uri, endpoint_uri, model_ids,
                   deployment_objective_configs, mgmtVars,
                   prepVars, trainVars, otherVars>>

\* The job service starts a pending monitoring job.
MonitoringServiceStep ==
    /\ \E j \in 1..Len(monitoring_jobs) :
         /\ monitoring_jobs[j].state = "JOB_STATE_PENDING"
         /\ monitoring_jobs' = [monitoring_jobs EXCEPT ![j].state = "JOB_STATE_RUNNING"]
    /\ UNCHANGED <<clock, datasets, endpoints, mon_cell, bq_source_uri, endpoint_uri,
                   model_ids, deployment_objective_configs, jobs_created, mgmtVars,
                   prepVars, trainVars, otherVars>>

\* Positions of the jobs that list_model_deployment_monitoring_jobs returns with
\* the given display name.
JobsNamed(display_name) ==
    {j \in 1..Len(monitoring_jobs) : monitoring_jobs[j].display_name = display_name}

JobExists(name) == \E j \in 1..Len(monitoring_jobs) : monitoring_jobs[j].name = name

RemoveAt(seq, j) == [k \in 1..(Len(seq) - 1) |-> IF k < j THEN seq[k] ELSE seq[k + 1]]

\* 08, section 3: "monitoring_jobs = ...list_model_deployment_monitoring_jobs(parent=PARENT)",
\* "monitoring_job = [entry for entry in monitoring_jobs if entry.display_name ==
\* MONITORING_JOB_NAME][0]".  The service fixes the order of the list; [0] raises
\* IndexError when no job has the display name.
GetMonitoringJob ==
    /\ IF JobsNamed(MONITORING_JOB_NAME) = {}
       THEN /\ last_call' = [op |-> "list", target |-> 0, error |-> "IndexError"]
            /\ UNCHANGED monitoring_job
       ELSE \E j \in JobsNamed(MONITORING_JOB_NAME) :
              /\ monitoring_job' = monitoring_jobs[j].name
              /\ last_call' = [op |-> "list", target |-> monitoring_jobs[j].name,
                               error |-> "none"]
    /\ UNCHANGED <<clock, datasets, endpoints, mon_cell, bq_source_uri, endpoint_uri,
                   model_ids, deployment_objective_configs, monitoring_jobs, jobs_created,
                   prepVars, trainVars, otherVars>>

\* The effect of pause_model_deployment_monitoring_job on the service's jobs:
\* the job's state becomes PAUSED.
PauseJob(jobs, name) ==
    [j \in 1..Len(jobs) |->
        IF jobs[j].name = name THEN [jobs[j] EXCEPT !.state = "JOB_STATE_PAUSED"]
        ELSE jobs[j]]

\* 08, section 5: "job_client_beta.pause_model_deployment_monitoring_job(name=monitoring_job)".
\* The call raises NotFound when the job no longer exists.
PauseMonitoringJob ==
    /\ monitoring_job # 0
    /\ IF JobExists(monitoring_job)
       THEN /\ monitoring_jobs' = PauseJob(monitoring_jobs, monitoring_job)
            /\ last_call' = [op |-> "pause", target |-> monitoring_job, error |-> "none"]
       ELSE /\ last_call' = [op |-> "pause", target |-> monitoring_job, error |-> "NotFound"]
            /\ UNCHANGED monitoring_jobs
    /\ UNCHANGED <<clock, datasets, endpoints, mon_cell, bq_source_uri, endpoint_uri,
                   model_ids, deployment_objective_configs, jobs_created, monitoring_job,
                   prepVars, trainVars, otherVars>>

\* The effect of delete_model_deployment_monitoring_job on the service's jobs.
DeleteJob(jobs, name) ==
    LET j == CHOOSE k \in 1..Len(jobs) : jobs[k].name = name
    IN RemoveAt(jobs, j)

\* 08, last section: "job_client_beta.delete_model_deployment_monitoring_job(name=monitoring_job)".
\* The notebook variable still names the job after the call; deleting a job
\* that no longer exists raises NotFound.
DeleteMonitoringJob ==
    /\ monitoring_job # 0
    /\ IF JobExists(monitoring_job)
       THEN /\ monitoring_jobs' = DeleteJob(monitoring_jobs, monitoring_job)
            /\ last_call' = [op |-> "delete", target |-> monitoring_job, error |-> "none"]
       ELSE /\ last_call' = [op |-> "delete", target |-> monitoring_job, error |-> "NotFound"]
            /\ UNCHANGED monitoring_jobs
    /\ UNCHANGED <<clock, datasets, endpoints, mon_cell, bq_source_uri, endpoint_uri,
                   model_ids, deployment_objective_configs, jobs_created, monitoring_job,
                   prepVars, trainVars, otherVars>>

\* 08-model-monitoring, section 2, run against a project in which at most one
\* model has been deployed.
MonNext ==
    \/ CreateDataset
    \/ \E name \in EndpointNames : CreateEndpoint(name)
    \/ \E k \in 1..Len(endpoints) : (TotalDeployed(Len(endpoints)) = 0 /\ DeployModel(k))
    \/ RetrieveResources
    \/ ConfigureMonitoringJob
    \/ SubmitMonitoringJob

\* 08-model-monitoring, sections 2 to 5, run against a project that has one
\* endpoint with the display name, its models deployed before the first
\* monitoring job is created.
ManageNext ==
    \/ CreateDataset
    \/ (endpoints = <<>> /\ CreateEndpoint(ENDPOINT_DISPLAY_NAME))
    \/ \E k \in 1..Len(endpoints) : (jobs_created = 0 /\ DeployModel(k))
    \/ RetrieveResources
    \/ ConfigureMonitoringJob
    \/ SubmitMonitoringJob
    \/ MonitoringServiceStep
    \/ GetMonitoringJob
    \/ PauseMonitoringJob
    \/ DeleteMonitoringJob
---------------------------------------------------------------------------
\* build/pipeline-deployment.yaml: the steps of the Cloud Build configuration.

Steps ==
    {"Clone Repository", "Unit Test Datasource Utils", "Unit Test Model",
     "Local Test E2E Pipeline", "Build TFX Image", "Compile Pipeline",
     "Upload Pipeline to GCS"}

\* Variant in which the image build waits for the clone only.
waitFor_BuildAfterClone(step) ==
    CASE step = "Clone Repository" -> {}
      [] step = "Unit Test Datasource Utils" -> {"Clone Repository"}
      [] step = "Unit Test Model" -> {"Clone Repository"}
      [] step = "Local Test E2E Pipeline" ->
            {"Unit Test Datasource Utils", "Unit Test Model"}
      [] step = "Build TFX Image" -> {"Clone Repository"}
      [] step = "Compile Pipeline" -> {"Local Test E2E Pipeline"}
      [] step = "Upload Pipeline to GCS" -> {"Compile Pipeline"}

\* The waitFor field of each step; the first step has none and no step precedes it.
waitFor(step) ==
    CASE step = "Clone Repository" -> {}
      [] step = "Unit Test Datasource Utils" -> {"Clone Repository"}
      [] step = "Unit Test Model" -> {"Clone Repository"}
      [] step = "Local Test E2E Pipeline" ->
            {"Unit Test Datasource Utils", "Unit Test Model"}
      [] step = "Build TFX Image" -> {"Local Test E2E Pipeline"}
      [] step = "Compile Pipeline" -> {"Local Test E2E Pipeline"}
      [] step = "Upload Pipeline to GCS" -> {"Compile Pipeline"}

\* What a step leaves behind when it succeeds.
Produces(step) ==
    CASE step = "Build TFX Image" -> {"tfx_image"}
      [] step = "Compile Pipeline" -> {"compiled_pipeline"}
      [] step = "Upload Pipeline to GCS" -> {"pipeline_in_store"}
      [] OTHER -> {}

\* The trigger starts a build of the configuration: every step is queued.
TriggerBuild ==
    /\ build_status # "WORKING"
    /\ build_no < MaxBuilds
    /\ build_no' = build_no + 1
    /\ build_status' = "WORKING"
    /\ step_status' = [step \in Steps |-> "QUEUED"]
    /\ build_artifacts' = {}
    /\ UNCHANGED <<prepVars, trainVars, monVars, extVars, batchVars, scriptVars>>

\* The build service starts a step once every step it waits for has succeeded.
StartStep(step) ==
    /\ build_status = "WORKING"
    /\ step_status[step] = "QUEUED"
    /\ \A w \in waitFor(step) : step_status[w] = "SUCCESS"
    /\ step_status' = [step_status EXCEPT ![step] = "RUNNING"]
    /\ UNCHANGED <<build_no, build_status, build_artifacts, prepVars, trainVars, monVars, extVars,
                   batchVars, scriptVars>>

\* A running step exits with status 0.
StepSucceeds(step) ==
    /\ build_status = "WORKING"
    /\ step_status[step] = "RUNNING"
    /\ step_status' = [step_status EXCEPT ![step] = "SUCCESS"]
    /\ build_artifacts' = build_artifacts \cup Produces(step)
    /\ UNCHANGED <<build_no, build_status, prepVars, trainVars, monVars, extVars, batchVars, scriptVars>>

\* A running step exits with a non-zero status (FAILURE) or exceeds its
\* timeout (TIMEOUT): the build ends with that status, the other running steps
\* are cancelled and no further step starts.
StepFails(step) ==
    /\ build_status = "WORKING"
    /\ step_status[step] = "RUNNING"
    /\ \E outcome \in {"FAILURE", "TIMEOUT"} :
         /\ step_status' = [s \in Steps |->
               IF s = step THEN outcome
               ELSE IF step_status[s] = "RUNNING" THEN "CANCELLED"
               ELSE step_status[s]]
         /\ build_status' = outcome
    /\ UNCHANGED <<build_no, build_artifacts, prepVars, trainVars, monVars, extVars, batchVars,
                   scriptVars>>

\* The build is cancelled from outside while it is working.
CancelBuild ==
    /\ build_status = "WORKING"
    /\ step_status' = [s \in Steps |->
          IF step_status[s] = "RUNNING" THEN "CANCELLED" ELSE step_status[s]]
    /\ build_status' = "CANCELLED"
    /\ UNCHANGED <<build_no, build_artifacts, prepVars, trainVars, monVars, extVars, batchVars,
                   scriptVars>>

\* images: ['$_TFX_IMAGE_URI']: once every step has succeeded the image is
\* pushed; the build succeeds if the push does.
PushImages ==
    /\ build_status = "WORKING"
    /\ \A s \in Steps : step_status[s] = "SUCCESS"
    /\ \/ /\ build_artifacts' = build_artifacts \cup {"pushed_image"}
          /\ build_status' = "SUCCESS"
       \/ /\ build_status' = "FAILURE"
          /\ UNCHANGED build_artifacts
    /\ UNCHANGED <<build_no, step_status, prepVars, trainVars, monVars, extVars, batchVars, scriptVars>>

\* 04-pipeline-deployment: submitting the build of pipeline-deployment.yaml.

\* The user-defined variables $_NAME that pipeline-deployment.yaml references.
TemplateVariables ==
    {"_REPO_URL", "_BRANCH", "_CICD_IMAGE_URI", "_PROJECT_ID", "_REGION",
     "_GCS_LOCATION", "_TEST_GCS_LOCATION", "_BQ_LOCATION", "_BQ_DATASET_NAME",
     "_BQ_TABLE_NAME", "_DATASET_DISPLAY_NAME", "_MODEL_DISPLAY_NAME",
     "_CI_TRAIN_LIMIT", "_CI_TEST_LIMIT", "_CI_UPLOAD_MODEL",
     "_CI_ACCURACY_THRESHOLD", "_BEAM_RUNNER", "_TRAINING_RUNNER",
     "_TFX_IMAGE_URI", "_PIPELINE_NAME", "_PIPELINES_STORE"}

\* The keys of the notebook's SUBSTITUTIONS string.
SUBSTITUTIONS ==
    {"_REPO_URL", "_BRANCH", "_CICD_IMAGE_URI", "_PROJECT", "_REGION",
     "_GCS_LOCATION", "_TEST_GCS_LOCATION", "_BQ_LOCATION", "_BQ_DATASET_NAME",
     "_BQ_TABLE_NAME", "_DATASET_DISPLAY_NAME", "_MODEL_DISPLAY_NAME",
     "_TRAIN_LIMIT", "_TEST_LIMIT", "_UPLOAD_MODEL", "_ACCURACY_THRESHOLD",
     "_BEAM_RUNNER", "_TRAINING_RUNNER", "_TFX_IMAGE_URI", "_PIPELINE_NAME",
     "_PIPELINES_STORE"}

\* Keys given that the configuration does not reference, and variables the
\* configuration references that are given no value.
Unmatched(keys) == (keys \ TemplateVariables) \cup (TemplateVariables \ keys)

\* Cell "!gcloud builds submit --no-source --config build/pipeline-deployment.yaml
\* --substitutions {SUBSTITUTIONS}". The configuration sets no substitution
\* option, so the service requires keys and variables to match: it starts the
\* build if they do and rejects the request if they do not.
SubmitBuild ==
    /\ build_status # "WORKING"
    /\ substitutions' = SUBSTITUTIONS
    /\ IF Unmatched(SUBSTITUTIONS) = {}
       THEN /\ build_no < MaxBuilds
            /\ build_no' = build_no + 1
            /\ build_status' = "WORKING"
            /\ step_status' = [step \in Steps |-> "QUEUED"]
            /\ build_artifacts' = {}
            /\ submit_error' = "none"
       ELSE /\ submit_error' = "INVALID_ARGUMENT"
            /\ UNCHANGED buildVars
    /\ UNCHANGED <<prepVars, trainVars, monVars, batchVars, scriptVars, triggerVars,
                   workspaceVars>>

BuildNext ==
    \/ TriggerBuild
    \/ \E step \in Steps : StartStep(step)
    \/ \E step \in Steps : StepSucceeds(step)
    \/ \E step \in Steps : StepFails(step)
    \/ CancelBuild
    \/ PushImages
    \/ SubmitBuild

---------------------------------------------------------------------------
\* Batch prediction (the prediction-serving notebook, section "Batch prediction").

\* Cell "if tf.io.gfile.exists(SERVING_DATA_DIR): rmtree ... mkdir(SERVING_DATA_DIR)".
PrepareServingDataDir ==
    /\ batch_cell = "prepare"
    /\ serving_input' = "absent"
    /\ batch_error' = "none"
    /\ batch_cell' = "extract"
    /\ UNCHANGED <<batch_jobs, prepVars, trainVars, monVars, extVars, buildVars, scriptVars>>

\* Cell "etl.run_extract_pipeline(args)": the call is entered and the pipeline
\* writes the data-*.jsonl files.
ExtractStarts ==
    /\ batch_cell = "extract"
    /\ serving_input' = "writing"
    /\ batch_cell' = "extracting"
    /\ UNCHANGED <<batch_jobs, batch_error, prepVars, trainVars, monVars, extVars, buildVars,
                   scriptVars>>

\* run_extract_pipeline returns ("Data extraction completed." is printed) or raises.
ExtractReturns ==
    /\ batch_cell = "extracting"
    /\ \/ /\ serving_input' = "complete"
          /\ batch_error' = "none"
          /\ batch_cell' = "get_model"
       \/ /\ serving_input' = "partial"
          /\ batch_error' = "extraction failed"
          /\ batch_cell' = "prepare"
    /\ UNCHANGED <<batch_jobs, prepVars, trainVars, monVars, extVars, buildVars, scriptVars>>

\* Cell "model_name = vertex_ai.Model.list(..., order_by='update_time')[-1]...":
\* [-1] raises IndexError while no model has been uploaded.
GetModelName ==
    /\ batch_cell = "get_model"
    /\ IF vertex_models = <<>>
       THEN /\ batch_error' = "IndexError"
            /\ batch_cell' = "get_model"
       ELSE /\ batch_error' = "none"
            /\ batch_cell' = "submit"
    /\ UNCHANGED <<serving_input, batch_jobs, prepVars, trainVars, monVars, extVars, buildVars,
                   scriptVars>>

\* Cell "job_resources = {...}; job_display_name = f'...'; BatchPredictionJob.create(
\* ..., sync=True, **job_resources)".  The f-string nests single quotes, which
\* the notebook's Python 3.7 rejects with a SyntaxError before any statement of
\* the cell runs; and job_resources holds the key 'max_replica_coun', which
\* create() does not accept.  Either way the cell raises and creates no job.
SubmitBatchPredictionJob ==
    /\ batch_cell = "submit"
    /\ batch_error' = "SyntaxError"
    /\ batch_cell' = "done"
    /\ UNCHANGED <<serving_input, batch_jobs, prepVars, trainVars, monVars, extVars, buildVars,
                   scriptVars>>

\* The section is run again from its first cell.
RunBatchSectionAgain ==
    /\ batch_cell = "done"
    /\ batch_cell' = "prepare"
    /\ UNCHANGED <<serving_input, batch_jobs, batch_error, prepVars, trainVars, monVars, extVars,
                   buildVars, scriptVars>>

BatchNext ==
    \/ PrepareServingDataDir
    \/ ExtractStarts
    \/ ExtractReturns
    \/ GetModelName
    \/ SubmitBatchPredictionJob
    \/ RunBatchSectionAgain

---------------------------------------------------------------------------
\* The SQL script and its placeholders.  A string is the sequence of its characters.

\* The script of each notebook, from the destination table's name to the LIMIT
\* clause, with the text between the placeholders (which holds no '@') cut
\* down to the characters next to them; "|" stands for the backquote.
ScriptTemplate(nb) ==
    IF nb = "nb01"
    THEN
        <<"|", "@", "P", "R", "O", "J", "E", "C", "T", "_", "I", "D", ".", "@", "D", "A",
        "T", "A", "S", "E", "T", ".", "@", "T", "A", "B", "L", "E", "|", " ", "=", " ",
        "@", "Y", "E", "A", "R", ")", " ", "L", "I", "M", "I", "T", " ", "@", "L", "I",
        "M", "I", "T", ")">>
    ELSE
        <<"|", "@", "P", "R", "O", "J", "E", "C", "T", ".", "@", "D", "A", "T", "A", "S",
        "E", "T", ".", "@", "T", "A", "B", "L", "E", "|", " ", "=", " ", "@", "Y", "E",
        "A", "R", ")", " ", "L", "I", "M", "I", "T", " ", "@", "L", "I", "M", "I", "T",
        ")">>

ProjectPlaceholder(nb) ==
    IF nb = "nb01" THEN <<"@", "P", "R", "O", "J", "E", "C", "T", "_", "I", "D">>
    ELSE <<"@", "P", "R", "O", "J", "E", "C", "T">>
DatasetPlaceholder == <<"@", "D", "A", "T", "A", "S", "E", "T">>
TablePlaceholder == <<"@", "T", "A", "B", "L", "E">>
YearPlaceholder == <<"@", "Y", "E", "A", "R">>
LimitPlaceholder == <<"@", "L", "I", "M", "I", "T">>

\* Values the three configured names are drawn from: a plain name, the names
\* of two later placeholders without their '@', and one value that holds an '@'.
PlainName == <<"p">>
TableWord == <<"T", "A", "B", "L", "E">>
YearWord == <<"Y", "E", "A", "R">>
ParamValues == {PlainName, TableWord, YearWord, LimitPlaceholder}

HasAt(value) == \E i \in 1..Len(value) : value[i] = "@"

\* str(n) for a non-negative integer.
Digits == <<"0", "1", "2", "3", "4", "5", "6", "7", "8", "9">>

RECURSIVE Str(_)
Str(n) == IF n < 10 THEN <<Digits[n + 1]>> ELSE Str(n \div 10) \o <<Digits[(n % 10) + 1]>>

MatchesAt(s, i, old) ==
    /\ i + Len(old) - 1 <= Len(s)
    /\ \A k \in 1..Len(old) : s[i + k - 1] = old[k]

Occurs(s, old) == \E i \in 1..Len(s) : MatchesAt(s, i, old)

\* str.replace(old, new): the occurrences of old, found from left to right
\* without overlap, are replaced by new.
RECURSIVE ReplaceFrom(_, _, _, _)
ReplaceFrom(s, i, old, new) ==
    IF i > Len(s) THEN <<>>
    ELSE IF MatchesAt(s, i, old) THEN new \o ReplaceFrom(s, i + Len(old), old, new)
    ELSE <<s[i]>> \o ReplaceFrom(s, i + 1, old, new)

Replace(s, old, new) == ReplaceFrom(s, 1, old, new)

\* Variant of the chain without the replacement of @YEAR.
ReplaceChain_NoYear(nb, script, params) ==
    Replace(Replace(Replace(Replace(script,
        ProjectPlaceholder(nb), params.PROJECT_ID),
        DatasetPlaceholder, params.BQ_DATASET_NAME),
        TablePlaceholder, params.BQ_TABLE_NAME),
        LimitPlaceholder, Str(sample_size))

\* sql_script.replace('@PROJECT_ID', PROJECT_ID).replace('@DATASET', BQ_DATASET_NAME)
\*     .replace('@TABLE', BQ_TABLE_NAME).replace('@YEAR', str(year))
\*     .replace('@LIMIT', str(sample_size))
ReplaceChain(nb, script, params) ==
    Replace(Replace(Replace(Replace(Replace(script,
        ProjectPlaceholder(nb), params.PROJECT_ID),
        DatasetPlaceholder, params.BQ_DATASET_NAME),
        TablePlaceholder, params.BQ_TABLE_NAME),
        YearPlaceholder, Str(year)),
        LimitPlaceholder, Str(sample_size))

NoScript == [nb |-> "none", replaced |-> FALSE, text |-> <<>>]

\* Cell "sql_script = '''CREATE OR REPLACE TABLE ... '''".
DefineScript(nb) ==
    /\ sql_script' = [nb |-> nb, replaced |-> FALSE, text |-> ScriptTemplate(nb)]
    /\ UNCHANGED <<script_params, prepVars, trainVars, monVars, extVars, buildVars, batchVars>>

\* Cell "sql_script = sql_script.replace(...)...": run on the script the
\* notebook has defined, possibly more than once.
ReplacePlaceholders(nb) ==
    /\ sql_script.nb = nb
    /\ sql_script' = [nb |-> nb, replaced |-> TRUE,
                      text |-> ReplaceChain(nb, sql_script.text, script_params)]
    /\ UNCHANGED <<script_params, prepVars, trainVars, monVars, extVars, buildVars, batchVars>>

ScriptNext ==
    \/ \E nb \in Notebooks : DefineScript(nb)
    \/ \E nb \in Notebooks : ReplacePlaceholders(nb)

DefaultParams ==
    [PROJECT_ID |-> PlainName, BQ_DATASET_NAME |-> PlainName, BQ_TABLE_NAME |-> PlainName]

---------------------------------------------------------------------------
\* 05 - Continuous training: the Pub/Sub topic, the trigger function and the
\* cell that lists the pipeline jobs.

\* Cell "publish_client.publish(topic, message.encode())".
PublishTrigger ==
    /\ published < MaxMessages
    /\ published' = published + 1
    /\ in_flight' = in_flight \cup {published + 1}
    /\ UNCHANGED <<pipeline_jobs, job_display_name, list_error, prepVars, trainVars, monVars,
                   buildVars, batchVars, scriptVars, submitVars, workspaceVars>>

\* The Cloud Function deployed with --trigger-topic receives a message and
\* submits the pipeline to Vertex Pipelines; the new job is the newest one.
TriggerFunctionRuns(m) ==
    /\ m \in in_flight
    /\ in_flight' = in_flight \ {m}
    /\ pipeline_jobs' = <<m>> \o pipeline_jobs
    /\ UNCHANGED <<published, job_display_name, list_error, prepVars, trainVars, monVars,
                   buildVars, batchVars, scriptVars, submitVars, workspaceVars>>

\* Cell "job_display_name = pipeline_client.list_jobs()['pipelineJobs'][0]['displayName']",
\* run after the publishing cell; the response has no 'pipelineJobs' when
\* there is no job.
ListPipelineJobs ==
    /\ published > 0
    /\ IF pipeline_jobs = <<>>
       THEN list_error' = "KeyError" /\ UNCHANGED job_display_name
       ELSE list_error' = "none" /\ job_display_name' = pipeline_jobs[1]
    /\ UNCHANGED <<published, in_flight, pipeline_jobs, prepVars, trainVars, monVars,
                   buildVars, batchVars, scriptVars, submitVars, workspaceVars>>

TriggerNext ==
    \/ PublishTrigger
    \/ \E m \in 1..MaxMessages : TriggerFunctionRuns(m)
    \/ ListPipelineJobs

---------------------------------------------------------------------------
\* 02-experimentation: workspace initialisation and the experiment runs.

RunKinds == {"run-local", "run-gcp"}

\* f'run-local-{datetime.now().strftime("%Y%m%d%H%M%S")}': the prefix and the
\* time of day to the second.
RunId(kind, time) == [kind |-> kind, time |-> time]

\* Variant that removes an existing directory whatever the flag says.
ShouldRemove_Always(exists, flag) == exists

\* tf.io.gfile.exists(EXPERIMENT_ARTIFACTS_DIR) and REMOVE_EXPERIMENT_ARTIFACTS
ShouldRemove(exists, flag) == exists /\ flag

\* Cell "REMOVE_EXPERIMENT_ARTIFACTS = False; if exists and REMOVE...: rmtree;
\* if not exists: mkdir; print('Workspace is ready.')", with the flag as the
\* notebook's user has set it.
InitializeWorkspace(flag) ==
    /\ REMOVE_EXPERIMENT_ARTIFACTS' = flag
    /\ artifacts_dir_exists' = TRUE
    /\ experiment_artifacts' =
          IF ShouldRemove(artifacts_dir_exists, flag) THEN {} ELSE experiment_artifacts
    /\ workspace_output' =
          (IF ShouldRemove(artifacts_dir_exists, flag)
             THEN <<"Removing previous experiment artifacts...">> ELSE <<>>)
          \o (IF ShouldRemove(artifacts_dir_exists, flag) \/ ~artifacts_dir_exists
                THEN <<"Creating new experiment artifacts directory...">> ELSE <<>>)
          \o <<"Workspace is ready.">>
    /\ UNCHANGED <<now, run_id, runs, prepVars, trainVars, monVars, buildVars, batchVars,
                   scriptVars, submitVars, triggerVars>>

\* A second passes.
Tick ==
    /\ now < MaxSeconds
    /\ now' = now + 1
    /\ UNCHANGED <<run_id, runs, artifacts_dir_exists, experiment_artifacts,
                   REMOVE_EXPERIMENT_ARTIFACTS, workspace_output, prepVars, trainVars,
                   monVars, buildVars, batchVars, scriptVars, submitVars, triggerVars>>

\* Cells "run_id = f'run-local-...'; vertex_ai.start_run(run_id)" and
\* "run_id = f'run-gcp-...'; vertex_ai.start_run(run_id)".
StartRun(kind) ==
    /\ Len(runs) < MaxExperimentRuns
    /\ run_id' = RunId(kind, now)
    /\ runs' = Append(runs, RunId(kind, now))
    /\ UNCHANGED <<now, artifacts_dir_exists, experiment_artifacts,
                   REMOVE_EXPERIMENT_ARTIFACTS, workspace_output, prepVars, trainVars,
                   monVars, buildVars, batchVars, scriptVars, submitVars, triggerVars>>

\* The cells of a run write the exported data, the transform artifacts and
\* the model below EXPERIMENT_RUN_DIR.
WriteRunArtifacts ==
    /\ run_id.kind \in RunKinds
    /\ artifacts_dir_exists' = TRUE
    /\ experiment_artifacts' = experiment_artifacts \cup {run_id}
    /\ UNCHANGED <<now, run_id, runs, REMOVE_EXPERIMENT_ARTIFACTS, workspace_output,
                   prepVars, trainVars, monVars, buildVars, batchVars, scriptVars,
                   submitVars, triggerVars>>

WorkspaceNext ==
    \/ \E flag \in BOOLEAN : InitializeWorkspace(flag)
    \/ Tick
    \/ \E kind \in RunKinds : StartRun(kind)
    \/ WriteRunArtifacts

---------------------------------------------------------------------------
\* The state before any cell has run; the source table holds one trip.
Init ==
    /\ taxi_trips \in {<<t>> : t \in Trips}
    /\ bq_table = NoTable
    /\ runCount = 0
    /\ query_error = "none"
    /\ sample_data = NoSample
    /\ schema = NoSchema
    /\ cell = "test_task"
    /\ custom_job = "NOT_SUBMITTED"
    /\ response = "NONE"
    /\ polls = 0
    /\ export_dir = "empty"
    /\ export_writes = <<>>
    /\ vertex_models = <<>>
    /\ clock = 0
    /\ datasets = <<>>
    /\ endpoints = <<>>
    /\ mon_cell = "retrieve"
    /\ bq_source_uri = ""
    /\ endpoint_uri = 0
    /\ model_ids = <<>>
    /\ deployment_objective_configs = <<>>
    /\ monitoring_jobs = <<>>
    /\ jobs_created = 0
    /\ monitoring_job = 0
    /\ last_call = NoCall
    /\ step_status = [step \in Steps |-> "QUEUED"]
    /\ build_no = 0
    /\ build_status = "NONE"
    /\ build_artifacts = {}
    /\ batch_cell = "prepare"
    /\ serving_input = "absent"
    /\ batch_jobs = <<>>
    /\ batch_error = "none"
    /\ script_params = DefaultParams
    /\ sql_script = NoScript
    /\ substitutions = {}
    /\ submit_error = "none"
    /\ published = 0
    /\ in_flight = {}
    /\ pipeline_jobs = <<>>
    /\ job_display_name = 0
    /\ list_error = "none"
    /\ now = 0
    /\ run_id = [kind |-> "none", time |-> 0]
    /\ runs = <<>>
    /\ artifacts_dir_exists = FALSE
    /\ experiment_artifacts = {}
    /\ REMOVE_EXPERIMENT_ARTIFACTS = FALSE
    /\ workspace_output = <<>>

\* The same state with an empty source table, for the notebooks that do not read it.
InitNoTrips ==
    /\ taxi_trips = <<>>
    /\ bq_table = NoTable
    /\ runCount = 0
    /\ query_error = "none"
    /\ sample_data = NoSample
    /\ schema = NoSchema
    /\ cell = "test_task"
    /\ custom_job = "NOT_SUBMITTED"
    /\ response = "NONE"
    /\ polls = 0
    /\ export_dir = "empty"
    /\ export_writes = <<>>
    /\ vertex_models = <<>>
    /\ clock = 0
    /\ datasets = <<>>
    /\ endpoints = <<>>
    /\ mon_cell = "retrieve"
    /\ bq_source_uri = ""
    /\ endpoint_uri = 0
    /\ model_ids = <<>>
    /\ deployment_objective_configs = <<>>
    /\ monitoring_jobs = <<>>
    /\ jobs_created = 0
    /\ monitoring_job = 0
    /\ last_call = NoCall
    /\ step_status = [step \in Steps |-> "QUEUED"]
    /\ build_no = 0
    /\ build_status = "NONE"
    /\ build_artifacts = {}
    /\ batch_cell = "prepare"
    /\ serving_input = "absent"
    /\ batch_jobs = <<>>
    /\ batch_error = "none"
    /\ script_params = DefaultParams
    /\ sql_script = NoScript
    /\ substitutions = {}
    /\ submit_error = "none"
    /\ published = 0
    /\ in_flight = {}
    /\ pipeline_jobs = <<>>
    /\ job_display_name = 0
    /\ list_error = "none"
    /\ now = 0
    /\ run_id = [kind |-> "none", time |-> 0]
    /\ runs = <<>>
    /\ artifacts_dir_exists = FALSE
    /\ experiment_artifacts = {}
    /\ REMOVE_EXPERIMENT_ARTIFACTS = FALSE
    /\ workspace_output = <<>>

\* The state before any cell has run, for each choice of the configured names.
InitScript ==
    /\ taxi_trips = <<>>
    /\ bq_table = NoTable
    /\ runCount = 0
    /\ query_error = "none"
    /\ sample_data = NoSample
    /\ schema = NoSchema
    /\ cell = "test_task"
    /\ custom_job = "NOT_SUBMITTED"
    /\ response = "NONE"
    /\ polls = 0
    /\ export_dir = "empty"
    /\ export_writes = <<>>
    /\ vertex_models = <<>>
    /\ clock = 0
    /\ datasets = <<>>
    /\ endpoints = <<>>
    /\ mon_cell = "retrieve"
    /\ bq_source_uri = ""
    /\ endpoint_uri = 0
    /\ model_ids = <<>>
    /\ deployment_objective_configs = <<>>
    /\ monitoring_jobs = <<>>
    /\ jobs_created = 0
    /\ monitoring_job = 0
    /\ last_call = NoCall
    /\ step_status = [step \in Steps |-> "QUEUED"]
    /\ build_no = 0
    /\ build_status = "NONE"
    /\ build_artifacts = {}
    /\ batch_cell = "prepare"
    /\ serving_input = "absent"
    /\ batch_jobs = <<>>
    /\ batch_error = "none"
    /\ script_params \in [PROJECT_ID : ParamValues, BQ_DATASET_NAME : ParamValues,
                           BQ_TABLE_NAME : ParamValues]
    /\ sql_script = NoScript
    /\ substitutions = {}
    /\ submit_error = "none"
    /\ published = 0
    /\ in_flight = {}
    /\ pipeline_jobs = <<>>
    /\ job_display_name = 0
    /\ list_error = "none"
    /\ now = 0
    /\ run_id = [kind |-> "none", time |-> 0]
    /\ runs = <<>>
    /\ artifacts_dir_exists = FALSE
    /\ experiment_artifacts = {}
    /\ REMOVE_EXPERIMENT_ARTIFACTS = FALSE
    /\ workspace_output = <<>>

Next ==
    PrepNext \/ TrainNext \/ MonNext \/ ManageNext \/ BuildNext \/ BatchNext \/ ScriptNext
        \/ TriggerNext \/ WorkspaceNext

Spec == Init /\ [][Next]_vars

\* One notebook at a time, the others not in use.
SpecPrep == Init /\ [][PrepNext]_vars
SpecTrain == InitNoTrips /\ [][TrainNext]_vars
SpecMon == InitNoTrips /\ [][MonNext]_vars
SpecManage == InitNoTrips /\ [][ManageNext]_vars
SpecBuild == InitNoTrips /\ [][BuildNext]_vars
\* Batch prediction next to the experimentation notebook that uploads the model.
SpecBatch == InitNoTrips /\ [][TrainNext \/ BatchNext]_vars
SpecScript == InitScript /\ [][ScriptNext]_vars
SpecTrigger == InitNoTrips /\ [][TriggerNext]_vars
SpecWorkspace == InitNoTrips /\ [][WorkspaceNext]_vars

---------------------------------------------------------------------------
\* Properties of data preparation and schema inference.

TableRows == {bq_table.rows[k] : k \in 1..Len(bq_table.rows)}
SourceOf(e) == taxi_trips[e.src]
SplitOf(e) == e.rec[SplitColumn(bq_table.written_by)]

\* C1: every prepared record comes from a trip with non-null pickup and dropoff
\* coordinates, trip_miles > 0, trip_seconds > 0 and fare > 0; the failing trips
\* are dropped before the features and the label are computed, so the division
\* tips/fare never sees a zero fare.
C1_PreparedFromValidTrips ==
    /\ query_error = "none"
    /\ \A e \in TableRows :
         /\ SourceOf(e).pickup_longitude # NULL
         /\ SourceOf(e).pickup_latitude # NULL
         /\ SourceOf(e).dropoff_longitude # NULL
         /\ SourceOf(e).dropoff_latitude # NULL
         /\ SourceOf(e).trip_miles > 0
         /\ SourceOf(e).trip_seconds > 0
         /\ SourceOf(e).fare > 0
         /\ e.rec.trip_miles > 0
         /\ e.rec.trip_seconds > 0

C1_Witness == runCount > 0 /\ TableRows # {}

DrawsGiving(nb, value) == {d \in Draws : SplitValue(nb, d) = value}

C3_SplitEightyTwenty ==
    bq_table.exists =>
        /\ 10 * Cardinality(DrawsGiving(bq_table.written_by, "UNASSIGNED")) = 8 * RandSteps
        /\ 10 * Cardinality(DrawsGiving(bq_table.written_by, "TEST")) = 2 * RandSteps

\* C4: every prepared record has exactly one split column, holding 'UNASSIGNED' or 'TEST'.
C4_OneSplitValue ==
    \A e \in TableRows :
        /\ Cardinality(DOMAIN e.rec \cap {SplitColumn(nb) : nb \in Notebooks}) = 1
        /\ SplitColumn(bq_table.written_by) \in DOMAIN e.rec
        /\ SplitOf(e) \in {"UNASSIGNED", "TEST"}

C4_Witness == \E e \in TableRows : SplitOf(e) = "TEST"

\* C5: after any sequence of runs the table holds exactly the records of the
\* latest run: one per trip kept by the filter, none of an earlier run.
C5_TableHoldsLatestRun ==
    bq_table.exists =>
        /\ \A e \in TableRows : e.run = runCount
        /\ Len(bq_table.rows) = Min(Len(taxitrips(taxi_trips, year)), sample_size)
        /\ \A i \in 1..Len(taxi_trips) :
             WhereClause(taxi_trips[i], year) => \E e \in TableRows : e.src = i

C5_Witness == runCount > 1 /\ Len(bq_table.rows) = 1

\* C6 as stated: a record once in the table is still there, unchanged, after every step.
C6_AppendOnly ==
    [][\A e \in TableRows : \E k \in 1..Len(bq_table'.rows) : bq_table'.rows[k] = e]_vars

\* C6 amended: a record stays in the table, unchanged, until the next
\* data-preparation run completes, and that run removes it.
C6_KeptUntilNextRun ==
    [][/\ runCount' = runCount => bq_table' = bq_table
       /\ runCount' # runCount =>
            \A e \in TableRows : \A k \in 1..Len(bq_table'.rows) : bq_table'.rows[k] # e]_vars

C6_Witness == runCount > 1 /\ TableRows # {} /\ sample_data.loaded

\* C7: the schema's features are the table's columns without trip_start_timestamp
\* and the split column; tip_bin is one of them.
C7_SchemaFeatures ==
    schema.written =>
        /\ schema.features =
             bq_table.columns \ {"trip_start_timestamp", SplitColumn(bq_table.written_by)}
        /\ schema.features \subseteq bq_table.columns
        /\ "tip_bin" \in schema.features

C7_Witness == schema.written /\ bq_table.written_by = "part000"
---------------------------------------------------------------------------
\* Properties of the training job's polling loop and of the model upload.

\* C8: once the loop has seen the job in a terminal state it has exited: it
\* does not go back to sleep and poll a finished job again.
C8_LoopExitsOnTerminalState ==
    (cell \in {"sleep", "poll"} /\ polls > 0) => response \notin TerminalStates

\* C9: when the job ended in JOB_STATE_FAILED the run stops there and no model
\* is uploaded from EXPORT_DIR.
C9_FailedJobHaltsRun ==
    response = "JOB_STATE_FAILED" => (cell # "done" /\ vertex_models = <<>>)

---------------------------------------------------------------------------
\* Properties of the monitoring job.

\* C10: every submitted monitoring job names one existing endpoint and has at
\* least one objective config, each for a model deployed on that endpoint.
C10_JobReferencesDeployedModels ==
    \A j \in 1..Len(monitoring_jobs) :
        LET job == monitoring_jobs[j] IN
        /\ job.endpoint \in 1..Len(endpoints)
        /\ Len(job.objective_configs) >= 1
        /\ \A c \in 1..Len(job.objective_configs) :
             \E m \in 1..Len(endpoints[job.endpoint].deployed_models) :
                endpoints[job.endpoint].deployed_models[m]
                    = job.objective_configs[c].deployed_model_id

\* C11 as stated: listing changes no job; a pause step that follows a successful
\* pause step on the same job, and a delete step that follows a successful
\* delete step on the same job, succeed and leave the jobs as they were.
RepeatOf(op) ==
    last_call = [op |-> op, target |-> monitoring_job, error |-> "none"]

C11_ManagementIdempotent ==
    [][/\ GetMonitoringJob => monitoring_jobs' = monitoring_jobs
       /\ (PauseMonitoringJob /\ RepeatOf("pause")) =>
             (last_call'.error = "none" /\ monitoring_jobs' = monitoring_jobs)
       /\ (DeleteMonitoringJob /\ RepeatOf("delete")) =>
             (last_call'.error = "none" /\ monitoring_jobs' = monitoring_jobs)]_vars

\* C12 as stated: every job that listing returns under MONITORING_JOB_NAME
\* carries the skew and drift maps: it has an objective config, and each of its
\* objective configs has exactly the features of SKEW_THRESHOLDS and
\* DIRFT_THRESHOLDS, each with the value given.
CarriesThresholds(configured, given) ==
    /\ DOMAIN configured = DOMAIN given
    /\ \A feature \in DOMAIN given : configured[feature].value = given[feature]

C12_ThresholdRoundTrip ==
    \A j \in JobsNamed(MONITORING_JOB_NAME) :
        LET configs == monitoring_jobs[j].objective_configs IN
        /\ Len(configs) >= 1
        /\ \A c \in 1..Len(configs) :
             /\ CarriesThresholds(configs[c].skew_thresholds, SKEW_THRESHOLDS)
             /\ CarriesThresholds(configs[c].drift_thresholds, DIRFT_THRESHOLDS)

\* C13: the retrieval cell takes, among the endpoints (datasets) that have the
\* display name, the one with the greatest update_time, whichever was created first.
Named(resources, name) == {k \in 1..Len(resources) : resources[k].display_name = name}

C13_RetrievesMostRecentlyUpdated ==
    [][RetrieveResources =>
        /\ endpoint_uri' \in Named(endpoints, ENDPOINT_DISPLAY_NAME)
        /\ \A k \in Named(endpoints, ENDPOINT_DISPLAY_NAME) :
             endpoints[k].update_time <= endpoints[endpoint_uri'].update_time
        /\ \E d \in Named(datasets, DATASET_DISPLAY_NAME) :
             /\ bq_source_uri' = datasets[d].bq_source
             /\ \A k \in Named(datasets, DATASET_DISPLAY_NAME) :
                  datasets[k].update_time <= datasets[d].update_time]_vars

\* The endpoint created first was updated last (a model was deployed on it)
\* and is the one retrieved.
C13_Witness ==
    /\ mon_cell = "configure"
    /\ Cardinality(Named(endpoints, ENDPOINT_DISPLAY_NAME)) = 2
    /\ endpoint_uri = 1
    /\ endpoints[1].update_time > endpoints[2].update_time
    /\ model_ids # <<>>

---------------------------------------------------------------------------
\* Properties of the export directory and of the notebook's use of the job service.

\* C18 as stated: until the model is uploaded, at most one step has written a
\* model into EXPORT_DIR.
C18_ExportDirWrittenOnce ==
    vertex_models = <<>> => Len(export_writes) <= 1

\* C19: from the submission to the exit of the loop every step of the notebook
\* leaves the job's state as it was, and every step that changes the job's
\* state leaves the notebook where it was.
C19_NotebookOnlyReadsJobState ==
    [][/\ (PollJobState \/ SleepReturns) => custom_job' = custom_job
       /\ (cell \in {"poll", "sleep"} /\ custom_job' # custom_job) =>
             (cell' = cell /\ response' = response /\ polls' = polls)]_vars

\* The loop has polled an unfinished job more than once and the job went on to succeed.
C19_Witness ==
    /\ polls > 1
    /\ cell = "upload"
    /\ response = "JOB_STATE_SUCCEEDED"

---------------------------------------------------------------------------
\* Properties of the CI/CD build.

Running == {step \in Steps : step_status[step] = "RUNNING"}
Started(step) == step_status[step] # "QUEUED"
Succeeded(step) == step_status[step] = "SUCCESS"

\* C14 as stated: at most one step is running at any time.
C14_StepsSequential == Cardinality(Running) <= 1

\* C14 amended: steps run concurrently only when waitFor does not order them:
\* the two unit tests with each other, and the image build with the pipeline
\* compilation or with the pipeline upload.
C14_ConcurrentOnlyIfUnordered ==
    \A s, t \in Running :
        s # t =>
            {s, t} \in {{"Unit Test Datasource Utils", "Unit Test Model"},
                        {"Build TFX Image", "Compile Pipeline"},
                        {"Build TFX Image", "Upload Pipeline to GCS"}}

C14_Witness ==
    /\ Running = {"Build TFX Image", "Upload Pipeline to GCS"}
    /\ Succeeded("Compile Pipeline")

\* C15: a step that has started has seen the steps it follows succeed: the
\* clone for every other step, both unit tests for the e2e test, the e2e test
\* for the image build and the compilation, the compilation for the upload.
C15_StartsAfterPrerequisites ==
    /\ \A step \in Steps \ {"Clone Repository"} :
          Started(step) => Succeeded("Clone Repository")
    /\ Started("Local Test E2E Pipeline") =>
          (Succeeded("Unit Test Datasource Utils") /\ Succeeded("Unit Test Model"))
    /\ Started("Build TFX Image") => Succeeded("Local Test E2E Pipeline")
    /\ Started("Compile Pipeline") => Succeeded("Local Test E2E Pipeline")
    /\ Started("Upload Pipeline to GCS") => Succeeded("Compile Pipeline")

C15_Witness == \A step \in Steps : Succeeded(step)

\* C16: when the clone, a unit test or the e2e test has failed, no image was
\* built, no pipeline compiled or uploaded and no image pushed, and the build
\* has failed.
C16_FailedTestHaltsBuild ==
    (\E step \in {"Clone Repository", "Unit Test Datasource Utils", "Unit Test Model",
                   "Local Test E2E Pipeline"} : step_status[step] \in {"FAILURE", "TIMEOUT"})
        => (build_artifacts = {} /\ build_status \in {"FAILURE", "TIMEOUT"}
            /\ \A step \in {"Build TFX Image", "Compile Pipeline", "Upload Pipeline to GCS"} :
                  ~Started(step))

\* One unit test failed while the other was running; the other was cancelled.
C16_Witness ==
    /\ step_status["Unit Test Model"] = "FAILURE"
    /\ step_status["Unit Test Datasource Utils"] = "CANCELLED"

---------------------------------------------------------------------------
\* Properties of batch prediction.

---------------------------------------------------------------------------
\* Properties of the placeholder replacement.

Placeholders(nb) ==
    <<ProjectPlaceholder(nb), DatasetPlaceholder, TablePlaceholder, YearPlaceholder,
      LimitPlaceholder>>

PlaceholderValues(params) ==
    <<params.PROJECT_ID, params.BQ_DATASET_NAME, params.BQ_TABLE_NAME, Str(year),
      Str(sample_size)>>

\* All placeholders replaced in one pass over the script: at each position the
\* placeholder that starts there, if any, gives way to its value.
RECURSIVE ReplaceAtOnceFrom(_, _, _, _)
ReplaceAtOnceFrom(s, i, olds, news) ==
    IF i > Len(s) THEN <<>>
    ELSE IF \E k \in 1..Len(olds) : MatchesAt(s, i, olds[k])
         THEN LET k == CHOOSE k \in 1..Len(olds) : MatchesAt(s, i, olds[k])
              IN news[k] \o ReplaceAtOnceFrom(s, i + Len(olds[k]), olds, news)
         ELSE <<s[i]>> \o ReplaceAtOnceFrom(s, i + 1, olds, news)

NoAtInValues ==
    /\ ~HasAt(script_params.PROJECT_ID)
    /\ ~HasAt(script_params.BQ_DATASET_NAME)
    /\ ~HasAt(script_params.BQ_TABLE_NAME)

\* C20: when no configured value holds an '@', the script after the chain of
\* replacements contains none of the placeholders and equals the script with
\* every placeholder replaced by its value in a single pass.
C20_ChainReplacesAllPlaceholders ==
    (sql_script.replaced /\ NoAtInValues) =>
        /\ \A k \in 1..5 : ~Occurs(sql_script.text, Placeholders(sql_script.nb)[k])
        /\ ~HasAt(sql_script.text)
        /\ sql_script.text =
             ReplaceAtOnceFrom(ScriptTemplate(sql_script.nb), 1,
                               Placeholders(sql_script.nb),
                               PlaceholderValues(script_params))

\* The chain has run with values that spell the names of later placeholders.
C20_Witness ==
    /\ sql_script.replaced
    /\ sql_script.nb = "part000"
    /\ NoAtInValues
    /\ script_params.PROJECT_ID = TableWord
    /\ script_params.BQ_DATASET_NAME = YearWord

---------------------------------------------------------------------------
\* Further properties of the label and of the polling loop.

\* C21 as stated: tip_bin is 1 exactly when the tip is strictly more than 20%
\* of the fare.
C21_LabelStrictlyAboveTwentyPercent ==
    \A e \in TableRows :
        e.rec.tip_bin = 1 <=>
            (SourceOf(e).tips # NULL /\ 5 * Val(SourceOf(e).tips) > SourceOf(e).fare)

\* C22: an iteration of the loop leaves the loop exactly when the state it
\* observed is JOB_STATE_SUCCEEDED or JOB_STATE_FAILED and goes to sleep on
\* every other state; the sleep is followed by another poll; once the loop has
\* been left there is no further sleep or poll.
LoopExited == cell \in {"upload", "done"}

C22_LoopExitsIffSucceededOrFailed ==
    [][/\ PollJobState =>
            /\ response' = custom_job
            /\ response' \in {"JOB_STATE_SUCCEEDED", "JOB_STATE_FAILED"} => cell' = "upload"
            /\ response' \in {"JOB_STATE_QUEUED", "JOB_STATE_PENDING", "JOB_STATE_RUNNING",
                              "JOB_STATE_CANCELLING", "JOB_STATE_CANCELLED",
                              "JOB_STATE_PAUSED", "JOB_STATE_EXPIRED"} => cell' = "sleep"
       /\ cell = "sleep" => cell' \in {"sleep", "poll"}
       /\ LoopExited => (LoopExited' /\ polls' = polls /\ response' = response)]_vars

\* The loop has slept on a cancelled job.
C22_Witness ==
    /\ cell = "poll"
    /\ polls > 1
    /\ response = "JOB_STATE_CANCELLED"

---------------------------------------------------------------------------
\* Further properties of the monitoring job.

\* C23: once the job is configured there is one objective config per deployed
\* model id, in the order of model_ids, each with that model's id and with the
\* template's training dataset and thresholds; the template keeps its empty id.
C23_OneConfigPerDeployedModel ==
    mon_cell = "submit" =>
        /\ Len(deployment_objective_configs) = Len(model_ids)
        /\ \A k \in 1..Len(model_ids) :
             /\ deployment_objective_configs[k].deployed_model_id = model_ids[k]
             /\ deployment_objective_configs[k] =
                  [objective_template(bq_source_uri) EXCEPT !.deployed_model_id = model_ids[k]]
        /\ objective_template(bq_source_uri).deployed_model_id = ""

C23_Witness ==
    /\ mon_cell = "submit"
    /\ Len(deployment_objective_configs) = 2
    /\ deployment_objective_configs[1].deployed_model_id
         # deployment_objective_configs[2].deployed_model_id

\* C24 as stated: the lookup by display name returns the job created last.
LatestJobName ==
    CHOOSE n \in {monitoring_jobs[j].name : j \in JobsNamed(MONITORING_JOB_NAME)} :
        \A j \in JobsNamed(MONITORING_JOB_NAME) : monitoring_jobs[j].name <= n

C24_LookupReturnsCreatedJob ==
    [][(GetMonitoringJob /\ JobsNamed(MONITORING_JOB_NAME) # {}) =>
          monitoring_job' = LatestJobName]_vars

\* C29: the features with a skew threshold, those with a drift threshold and
\* the feature names of every test instance are the prepared table's columns
\* without trip_start_timestamp, the split column and tip_bin, for either
\* notebook's table; each instance gives each feature a list of one value; and
\* every objective config of a monitoring job carries thresholds for these features.
ServingFeatures(nb) ==
    PreparedColumns(nb) \ {"trip_start_timestamp", SplitColumn(nb), "tip_bin"}

C29_SameFeatureSets ==
    \A nb \in Notebooks :
        /\ DOMAIN SKEW_THRESHOLDS = ServingFeatures(nb)
        /\ DOMAIN DIRFT_THRESHOLDS = ServingFeatures(nb)
        /\ \A i \in 1..Len(test_instances) :
             /\ DOMAIN test_instances[i] = ServingFeatures(nb)
             /\ \A f \in DOMAIN test_instances[i] : Len(test_instances[i][f]) = 1
        /\ \A j \in 1..Len(monitoring_jobs) :
             \A c \in 1..Len(monitoring_jobs[j].objective_configs) :
                /\ DOMAIN monitoring_jobs[j].objective_configs[c].skew_thresholds
                     = ServingFeatures(nb)
                /\ DOMAIN monitoring_jobs[j].objective_configs[c].drift_thresholds
                     = ServingFeatures(nb)

C29_Witness ==
    \E j \in 1..Len(monitoring_jobs) : Len(monitoring_jobs[j].objective_configs) >= 1

---------------------------------------------------------------------------
\* Further properties of the build, the trigger and the workspace.

\* C25 as stated: whenever 'Upload Pipeline to GCS' has completed, the step
\* 'Build TFX Image' has succeeded (it is neither running nor failed).
C25_UploadAfterImageBuilt ==
    step_status["Upload Pipeline to GCS"] = "SUCCESS" =>
        step_status["Build TFX Image"] = "SUCCESS"

\* C26 as stated: once the notebook has submitted the build, every variable
\* the configuration references is among the keys supplied and every key
\* supplied is referenced.
C26_SubstitutionsMatchTemplate ==
    substitutions # {} =>
        /\ TemplateVariables \subseteq substitutions
        /\ substitutions \subseteq TemplateVariables

\* C27 as stated: the job the listing cell reports is the pipeline run
\* submitted for the message published last.
C27_ReportedJobIsTriggeredRun ==
    [][ListPipelineJobs => (list_error' = "none" /\ job_display_name' = published)]_vars

\* C28 as stated: no two started runs have the same run id, hence the same
\* run directory.
C28_RunDirectoriesDistinct ==
    \A i, j \in 1..Len(runs) : i # j => runs[i] # runs[j]

\* C30: after the workspace cell the artifacts directory exists; its content
\* changes only when the directory existed and the flag is true; with the
\* flag false an existing directory keeps its content, also when the cell is
\* run again.
C30_WorkspaceInitKeepsArtifacts ==
    [][(\E flag \in BOOLEAN : InitializeWorkspace(flag)) =>
          /\ artifacts_dir_exists'
          /\ experiment_artifacts' # experiment_artifacts =>
                (artifacts_dir_exists /\ REMOVE_EXPERIMENT_ARTIFACTS')
          /\ (artifacts_dir_exists /\ ~REMOVE_EXPERIMENT_ARTIFACTS') =>
                /\ experiment_artifacts' = experiment_artifacts
                /\ workspace_output' = <<"Workspace is ready.">>]_vars

C30_Witness ==
    /\ workspace_output = <<"Workspace is ready.">>
    /\ ~REMOVE_EXPERIMENT_ARTIFACTS
    /\ artifacts_dir_exists
    /\ experiment_artifacts # {}

=============================================================================
